---- MODULE Spec2Model ----
(***************************************************************************)
(* Model of tray.py: a tray icon with a numbered badge.  A host thread     *)
(* calls start(cb) and update(num); the icon's event loop, launched by     *)
(* icon.run_detached() (or icon.run() when the module is the main          *)
(* program), dispatches the menu handlers click, Hide, Show and quit, one  *)
(* selection at a time.  create_image is modelled twice from the same      *)
(* primitives: as a pure operator (used by update) and step by step (the   *)
(* font-shrink loop, specification RenderSpec).                            *)
(***************************************************************************)
EXTENDS Integers, Sequences, FiniteSets, TLC

\* ------------------------------------------------------------------ bounds
MaxStart == 2
MaxUpdate == 2
MaxSelect == 2
MaxDigits == 118

\* ------------------------------------------------------- values and inputs
None == "None"
\* Callables a host may pass to start.  cbA and cbB accept zero or one
\* positional argument; cleanup accepts none (a zero-argument callback).
Callbacks == {"cbA", "cbB", "cleanup"}

Accepts(cb, nargs) ==
    IF cb = "cleanup" THEN nargs = 0 ELSE cb \in Callbacks /\ nargs \in {0, 1}

\* Arguments the host passes to update.
Counts == {7, 150}

\* Canvases create_image is exercised on in RenderSpec (width, height).
Canvases == {<<64, 64>>, <<16, 16>>}

MenuItems == {"Open", "Hide", "Show", "Quit"}

NoFont == 0
NoImage == [width |-> 0, height |-> 0, text |-> <<>>, font |-> NoFont,
            fg |-> "", bg |-> ""]

VARIABLES
    callback,      \* the module global `callback`
    icon_state,    \* the icon's event loop: Uninitialized, Running, Stopped
    icon_icon,     \* icon.icon, the displayed badge
    hostpc,        \* position of the host thread
    hostImg,       \* update: the image rendered but not yet assigned
    hostNum,       \* update: the argument of the call in progress
    hostExc,       \* the exception the last host call raised, or "none"
    hostAt,        \* update: the icon's state when the call in progress began
    hpc,           \* position of the handler the loop is running
    hkind,         \* the menu item being handled
    hreg,          \* the value of `callback` when the handler was entered
    hbody,         \* outcome of the handler's try body
    hcalls,        \* calls the running handler has made to the callback
    hexc,          \* the exception pending in the running handler
    lastStart,     \* argument of the most recent start call
    prevStart,     \* argument of the start call before that one
    lastSupplied,  \* most recent argument of start that was a callback
    lastCompleted, \* argument of the most recent completed update call
    nStart, nUpdate, nSelect,
    r_pc,          \* create_image, step by step: position
    r_width, r_height, r_len,   \* its canvas and the length of str(num)
    font_size,     \* its local font_size
    font,          \* size of the font object it holds, or NoFont
    r_exc          \* the exception it raised, or "none"

ctlVars == <<callback, icon_state, icon_icon>>
hostVars == <<hostpc, hostImg, hostNum, hostExc, hostAt>>
handlerVars == <<hpc, hkind, hreg, hbody, hcalls, hexc>>
histVars == <<lastStart, prevStart, lastSupplied, lastCompleted>>
countVars == <<nStart, nUpdate, nSelect>>
renderVars == <<r_pc, r_width, r_height, r_len, font_size, font, r_exc>>
vars == <<ctlVars, hostVars, handlerVars, histVars, countVars, renderVars>>

\* ------------------------------------------------------------ create_image
\* str(num): the decimal digits of a non-negative integer.
RECURSIVE str(_)
str(num) == IF num < 10 THEN <<num>> ELSE Append(str(num \div 10), num % 10)

\* int(height * 0.8)
initial_font_size(height) == (height * 8) \div 10

\* font.getbbox(text)[2] for a text of len digits in Arial Bold at the given
\* size: every digit advances 0.556 em.
getbbox_right(len, size) == (len * 556 * size) \div 1000

\* The loop condition of line 20.
too_wide(len, size, width) == getbbox_right(len, size) > width

\* ImageFont.truetype('arialbd.ttf', size): what a load can do.  A size
\* below 1 is rejected: with IOError/OSError by FreeType, with ValueError by
\* newer Pillow releases.  A positive size loads unless the font file cannot
\* be read.
LoadOutcomes(size) ==
    IF size >= 1 THEN {"ok", "IOError"} ELSE {"IOError", "ValueError"}

shrink_stuck(size) == size
\* font_size -= 1
shrink(size) == size - 1

\* The while loop of lines 20-25 when every positive size loads: the size of
\* the font the loop ends with.
RECURSIVE shrink_loop(_, _, _)
shrink_loop(len, width, size) ==
    IF too_wide(len, size, width)
    THEN IF shrink(size) >= 1 /\ shrink(size) < size
         THEN shrink_loop(len, width, shrink(size))
         ELSE size
    ELSE size

create_image(width, height, num, fg_color, bg_color) ==
    [width |-> width, height |-> height, text |-> str(num),
     font |-> shrink_loop(Len(str(num)), width, initial_font_size(height)),
     fg |-> fg_color, bg |-> bg_color]

create_icon_image(num) == create_image(64, 64, num, "white", "#0099ff")

\* ----------------------------------------------------------------- handlers
code_same(kind) == IF kind = "Quit" THEN <<>> ELSE <<1>>
\* The arguments each handler passes to the callback.
code(kind) ==
    CASE kind = "Open" -> <<1>>
      [] kind = "Hide" -> <<2>>
      [] kind = "Show" -> <<3>>
      [] kind = "Quit" -> <<>>

quit_entry_no_stop == "check"
\* quit: the try body (icon.stop()) comes first.
quit_entry == "stop"

entry(kind) ==
    CASE kind = "Open" -> "open"
      [] kind = "Quit" -> quit_entry
      [] OTHER -> "check"

click_after_open_except(outcome) == IF outcome = "raised" THEN "done" ELSE "check"
\* click: the finally clause runs after the try body on every exit path.
click_after_open(outcome) == "check"

\* The event loop dispatches a menu selection to its handler.
select(kind) ==
    /\ icon_state = "Running"
    /\ hpc = "idle"
    /\ nSelect < MaxSelect
    /\ nSelect' = nSelect + 1
    /\ hkind' = kind
    /\ hreg' = callback
    /\ hpc' = entry(kind)
    /\ UNCHANGED <<hbody, hcalls, hexc, nStart, nUpdate>>
    /\ UNCHANGED <<ctlVars, hostVars, histVars, renderVars>>

\* click, lines 44-48: webbrowser.open(url) returns True, returns False or
\* raises.
click_open(outcome) ==
    /\ hpc = "open"
    /\ hbody' = outcome
    /\ hexc' = IF outcome = "raised" THEN "OpenError" ELSE hexc
    /\ hpc' = click_after_open(outcome)
    /\ UNCHANGED <<hkind, hreg, hcalls>>
    /\ UNCHANGED <<ctlVars, hostVars, histVars, countVars, renderVars>>

quit_pending_swallowed(outcome, cur) == cur
\* quit: an exception of icon.stop() stays pending while the finally clause
\* runs (try/finally has no except clause).
quit_pending(outcome, cur) == IF outcome = "raised" THEN "StopError" ELSE cur

\* quit, lines 55-57: icon.stop() returns, or raises; a stop that raises may
\* or may not have ended the loop.
quit_stop(outcome, ended) ==
    /\ hpc = "stop"
    /\ outcome = "stopped" => ended
    /\ hbody' = outcome
    /\ hexc' = quit_pending(outcome, hexc)
    /\ icon_state' = IF ended THEN "Stopped" ELSE icon_state
    /\ hpc' = "check"
    /\ UNCHANGED <<hkind, hreg, hcalls, callback, icon_icon>>
    /\ UNCHANGED <<hostVars, histVars, countVars, renderVars>>

truthy_always(cb) == TRUE
\* The truth value of the callback slot: None is false, a callable is true.
truthy(cb) == cb # None

\* `if callback:` (lines 50, 59) and `callback and ...` (lines 68, 69).
callback_check ==
    /\ hpc = "check"
    /\ hpc' = IF truthy(callback) THEN "call" ELSE "done"
    /\ UNCHANGED <<hkind, hreg, hbody, hcalls, hexc>>
    /\ UNCHANGED <<ctlVars, hostVars, histVars, countVars, renderVars>>

\* callback(1), callback(), callback(2), callback(3): the global is read
\* again and called; a callee that does not take the arguments raises
\* TypeError.
callback_call ==
    /\ hpc = "call"
    /\ hcalls' = Append(hcalls, [cb |-> callback, args |-> code(hkind)])
    /\ hexc' = IF Accepts(callback, Len(code(hkind))) THEN hexc ELSE "TypeError"
    /\ hpc' = "done"
    /\ UNCHANGED <<hkind, hreg, hbody>>
    /\ UNCHANGED <<ctlVars, hostVars, histVars, countVars, renderVars>>

\* The handler returns to the loop (or its pending exception leaves it).
handler_return ==
    /\ hpc = "done"
    /\ hpc' = "idle"
    /\ hkind' = None
    /\ hreg' = None
    /\ hbody' = "none"
    /\ hcalls' = <<>>
    /\ hexc' = "none"
    /\ UNCHANGED <<ctlVars, hostVars, histVars, countVars, renderVars>>

\* --------------------------------------------------------------------- host
start_callback_first(cb, cur) == IF cb # None /\ cur = None THEN cb ELSE cur
start_callback_toggle(cb, cur) == IF cb # None THEN (IF cur = cb THEN None ELSE cb) ELSE cur
start_callback_always(cb, cur) == cb
start_callback_local(cb, cur) == cur
\* start, lines 81-82: `if cb: callback = cb`.
start_callback(cb, cur) == IF cb # None THEN cb ELSE cur

start_launch_blocking == "run"
\* start, line 83: the loop is launched with run_detached.
start_launch == "run_detached"

LaunchOutcomes_teardown(state) == {"Running", "Stopped"}
\* What launching the loop makes of the icon: a fresh or running icon runs;
\* launching a stopped icon again is left to the toolkit, which may run it
\* again or leave it stopped.
LaunchOutcomes(state) ==
    IF state = "Stopped" THEN {"Running", "Stopped"} ELSE {"Running"}

\* start(cb), lines 80-82.
start_assign(cb) ==
    /\ hostpc = "idle"
    /\ nStart < MaxStart
    /\ nStart' = nStart + 1
    /\ callback' = start_callback(cb, callback)
    /\ lastStart' = cb
    /\ prevStart' = lastStart
    /\ lastSupplied' = IF cb # None THEN cb ELSE lastSupplied
    /\ hostpc' = "start_run"
    /\ hostExc' = "none"
    /\ UNCHANGED <<icon_state, icon_icon, hostImg, hostNum, hostAt, lastCompleted,
                   nUpdate, nSelect>>
    /\ UNCHANGED <<handlerVars, renderVars>>

\* start(cb), line 83: icon.run_detached() starts the loop on a background
\* thread and returns.
start_run ==
    /\ hostpc = "start_run"
    /\ \E s \in LaunchOutcomes(icon_state) : icon_state' = s
    /\ hostpc' = IF start_launch = "run_detached" THEN "idle" ELSE "in_run"
    /\ UNCHANGED <<callback, icon_icon, hostImg, hostNum, hostExc, hostAt>>
    /\ UNCHANGED <<handlerVars, histVars, countVars, renderVars>>

\* `if __name__ == '__main__': icon.run()`: the loop runs on the calling
\* thread, which is blocked until the icon stops.
main_run ==
    /\ hostpc = "idle"
    /\ icon_state = "Uninitialized"
    /\ nStart = 0 /\ nUpdate = 0
    /\ icon_state' = "Running"
    /\ hostpc' = "in_run"
    /\ UNCHANGED <<callback, icon_icon, hostImg, hostNum, hostExc, hostAt>>
    /\ UNCHANGED <<handlerVars, histVars, countVars, renderVars>>

\* icon.run() returns once the loop has ended.
run_return ==
    /\ hostpc = "in_run"
    /\ icon_state = "Stopped"
    /\ hpc = "idle"
    /\ hostpc' = IF nStart = 0 THEN "exited" ELSE "idle"
    /\ UNCHANGED <<callback, icon_state, icon_icon, hostImg, hostNum, hostExc, hostAt>>
    /\ UNCHANGED <<handlerVars, histVars, countVars, renderVars>>

\* update(num), line 76, right-hand side: create_icon_image(num) returns the
\* badge, or raises when the font cannot be loaded.
update_render(num, loaded) ==
    /\ hostpc = "idle"
    /\ nUpdate < MaxUpdate
    /\ nUpdate' = nUpdate + 1
    /\ IF loaded
       THEN /\ hostImg' = create_icon_image(num)
            /\ hostNum' = num
            /\ hostpc' = "update_assign"
            /\ hostExc' = "none"
            /\ hostAt' = icon_state
       ELSE /\ hostExc' = "IOError"
            /\ UNCHANGED <<hostpc, hostImg, hostNum, hostAt>>
    /\ UNCHANGED <<ctlVars, handlerVars, histVars, nStart, nSelect, renderVars>>

update_assign_lost(img, old) == old
\* update(num), line 76, the assignment icon.icon = <image>.
update_assign(img, old) == img

update_store ==
    /\ hostpc = "update_assign"
    /\ icon_icon' = update_assign(hostImg, icon_icon)
    /\ lastCompleted' = hostNum
    /\ hostpc' = "idle"
    /\ hostImg' = NoImage
    /\ hostAt' = "none"
    /\ UNCHANGED <<callback, icon_state, hostNum, hostExc, lastStart, prevStart,
                   lastSupplied>>
    /\ UNCHANGED <<handlerVars, countVars, renderVars>>

\* ------------------------------------------------- create_image, step by step
\* lines 13-17
ci_begin ==
    /\ r_pc = "begin"
    /\ font_size' = initial_font_size(r_height)
    /\ r_pc' = "load"
    /\ UNCHANGED <<r_width, r_height, r_len, font, r_exc>>
    /\ UNCHANGED <<ctlVars, hostVars, handlerVars, histVars, countVars>>

\* line 18: the first load is outside any try.
ci_load(outcome) ==
    /\ r_pc = "load"
    /\ outcome \in LoadOutcomes(font_size)
    /\ IF outcome = "ok"
       THEN font' = font_size /\ r_pc' = "test" /\ UNCHANGED r_exc
       ELSE r_exc' = outcome /\ r_pc' = "raised" /\ UNCHANGED font
    /\ UNCHANGED <<r_width, r_height, r_len, font_size>>
    /\ UNCHANGED <<ctlVars, hostVars, handlerVars, histVars, countVars>>

\* line 20
ci_test ==
    /\ r_pc = "test"
    /\ r_pc' = IF too_wide(r_len, font, r_width) THEN "shrink" ELSE "draw"
    /\ UNCHANGED <<r_width, r_height, r_len, font_size, font, r_exc>>
    /\ UNCHANGED <<ctlVars, hostVars, handlerVars, histVars, countVars>>

\* lines 21-25: IOError breaks out of the loop, any other error leaves the
\* function.
ci_shrink(outcome) ==
    /\ r_pc = "shrink"
    /\ font_size' = shrink(font_size)
    /\ outcome \in LoadOutcomes(font_size')
    /\ CASE outcome = "ok" -> font' = font_size' /\ r_pc' = "test" /\ UNCHANGED r_exc
         [] outcome = "IOError" -> r_pc' = "draw" /\ UNCHANGED <<font, r_exc>>
         [] OTHER -> r_exc' = outcome /\ r_pc' = "raised" /\ UNCHANGED font
    /\ UNCHANGED <<r_width, r_height, r_len>>
    /\ UNCHANGED <<ctlVars, hostVars, handlerVars, histVars, countVars>>

\* lines 27-36
ci_draw ==
    /\ r_pc = "draw"
    /\ r_pc' = "returned"
    /\ UNCHANGED <<r_width, r_height, r_len, font_size, font, r_exc>>
    /\ UNCHANGED <<ctlVars, hostVars, handlerVars, histVars, countVars>>

\* ----------------------------------------------------------- specifications
CtlInit ==
    /\ callback = None
    /\ icon_state = "Uninitialized"
    /\ icon_icon = create_icon_image(42)
    /\ hostpc = "idle"
    /\ hostImg = NoImage
    /\ hostNum = 42
    /\ hostExc = "none"
    /\ hostAt = "none"
    /\ hpc = "idle"
    /\ hkind = None
    /\ hreg = None
    /\ hbody = "none"
    /\ hcalls = <<>>
    /\ hexc = "none"
    /\ lastStart = "NoStart"
    /\ prevStart = "NoStart"
    /\ lastSupplied = None
    /\ lastCompleted = 42
    /\ nStart = 0 /\ nUpdate = 0 /\ nSelect = 0

Init ==
    /\ CtlInit
    /\ r_pc = "idle"
    /\ r_width = 64 /\ r_height = 64 /\ r_len = 1
    /\ font_size = 0
    /\ font = NoFont
    /\ r_exc = "none"

Next ==
    \/ \E cb \in Callbacks \cup {None} : start_assign(cb)
    \/ start_run
    \/ main_run
    \/ run_return
    \/ \E num \in Counts, loaded \in BOOLEAN : update_render(num, loaded)
    \/ update_store
    \/ \E kind \in MenuItems : select(kind)
    \/ \E outcome \in {"opened", "failed", "raised"} : click_open(outcome)
    \/ \E outcome \in {"stopped", "raised"}, ended \in BOOLEAN : quit_stop(outcome, ended)
    \/ callback_check
    \/ callback_call
    \/ handler_return

Spec == Init /\ [][Next]_vars

\* The host thread keeps running: a call it has begun takes its next step.
FairSpec == Spec /\ WF_vars(start_run) /\ WF_vars(update_store) /\ WF_vars(run_return)

RenderInit ==
    /\ CtlInit
    /\ r_pc = "begin"
    /\ \E c \in Canvases : r_width = c[1] /\ r_height = c[2]
    /\ r_len \in 1..MaxDigits
    /\ font_size = 0
    /\ font = NoFont
    /\ r_exc = "none"

RenderNext ==
    \/ ci_begin
    \/ \E outcome \in {"ok", "IOError", "ValueError"} : ci_load(outcome)
    \/ ci_test
    \/ \E outcome \in {"ok", "IOError", "ValueError"} : ci_shrink(outcome)
    \/ ci_draw

RenderSpec == RenderInit /\ [][RenderNext]_vars

\* create_image runs to its end once called.
FairRenderSpec == RenderSpec /\ WF_vars(RenderNext)

\* ------------------------------------------------------------------- claims
Completed(kind) == hpc = "done" /\ hkind = kind

\* C1: with a callback registered, every execution of click calls the
\* callback exactly once, with the single argument 1, whether
\* webbrowser.open returned True, returned False or raised.
C1_OpenNotifiesOnce ==
    /\ hkind = "Open" => Len(hcalls) <= 1
    /\ Completed("Open") /\ hreg # None =>
          /\ hbody \in {"opened", "failed", "raised"}
          /\ Len(hcalls) = 1
          /\ hcalls[1].cb \in Callbacks
          /\ hcalls[1].args = <<1>>

C1_Witness ==
    /\ Completed("Open") /\ hreg # None
    /\ hbody = "raised"
    /\ hcalls = <<[cb |-> hreg, args |-> <<1>>]>>

\* C2: with a callback registered, every execution of quit calls the
\* callback exactly once, with no arguments, whether icon.stop() returned or
\* raised, and never before icon.stop() has been attempted.
C2_QuitCleansUpOnce ==
    /\ hkind = "Quit" => Len(hcalls) <= 1
    /\ hkind = "Quit" /\ hpc \in {"call", "done"} => hbody \in {"stopped", "raised"}
    /\ Completed("Quit") /\ hreg # None =>
          /\ Len(hcalls) = 1
          /\ hcalls[1].cb \in Callbacks
          /\ hcalls[1].args = <<>>

C2_Witness ==
    /\ Completed("Quit") /\ hreg # None
    /\ hbody = "raised"
    /\ hcalls = <<[cb |-> hreg, args |-> <<>>]>>

\* C3: after a single start call that passed only a zero-argument cleanup
\* callback, an Open selection completes without raising and calls no
\* callback.
C3_OpenWithCleanupOnly ==
    Completed("Open") /\ nStart = 1 /\ lastStart = "cleanup" /\ hbody # "raised" =>
        /\ hcalls = <<>>
        /\ hexc = "none"

\* C4: with a callback registered, Hide calls the callback exactly once with
\* 2 and Show exactly once with 3, whatever was selected before; the codes of
\* Open, Hide and Show are pairwise distinct.
C4_HideShowCodes ==
    /\ hkind \in {"Hide", "Show"} => Len(hcalls) <= 1
    /\ Completed("Hide") /\ hreg # None =>
          Len(hcalls) = 1 /\ hcalls[1].cb \in Callbacks /\ hcalls[1].args = <<2>>
    /\ Completed("Show") /\ hreg # None =>
          Len(hcalls) = 1 /\ hcalls[1].cb \in Callbacks /\ hcalls[1].args = <<3>>
    /\ \A k1, k2 \in {"Open", "Hide", "Show"} : k1 # k2 => code(k1) # code(k2)

C4_Witness ==
    /\ Completed("Show") /\ hreg # None
    /\ nSelect = 2
    /\ hcalls = <<[cb |-> hreg, args |-> <<3>>]>>

NewCall == Len(hcalls') = Len(hcalls) + 1
Callee == hcalls'[Len(hcalls')].cb

\* C5 as stated: every call a handler makes goes to the callback passed to
\* the most recent start call.
C5_CallsLatestStart == [][NewCall => Callee = lastStart]_vars

\* C5 as amended: every call a handler makes goes to the callback passed to
\* the most recent start call that passed one, never to one passed earlier.
C5_CallsLatestSupplied == [][NewCall => Callee = lastSupplied]_vars

C5_Witness ==
    /\ nStart >= 2
    /\ hreg = "cbA"
    /\ lastSupplied = "cbB"
    /\ Len(hcalls) = 1 /\ hcalls[1].cb = "cbB"

\* C6: once the icon is Stopped, nothing brings it back to Running.
C6_StoppedIsFinal == [][icon_state = "Stopped" => icon_state' # "Running"]_vars

\* C7: before Stopped, the displayed badge is the one rendered for the
\* argument of the most recent completed update call, or for 42 when no
\* update has completed; after update(150) it shows 150 at a size that fits.
C7_BadgeIsLatestUpdate ==
    icon_state # "Stopped" =>
        /\ icon_icon = create_icon_image(lastCompleted)
        /\ icon_icon.text = str(lastCompleted)
        /\ lastCompleted = 150 => icon_icon.text = <<1, 5, 0>> /\ icon_icon.font = 38
        /\ lastCompleted = 7 => icon_icon.text = <<7>> /\ icon_icon.font = 51

C7_Witness ==
    /\ icon_state = "Running"
    /\ nUpdate = 2
    /\ hostpc = "idle"
    /\ lastCompleted = 150
    /\ icon_icon.text = <<1, 5, 0>>

\* C8: a start call that has begun returns to the host although no Quit need
\* ever be selected, and the host can call update while the loop is Running.
C8_StartReturns ==
    /\ hostpc = "start_run" ~> hostpc = "idle"
    /\ [](hostpc = "idle" /\ icon_state = "Running" /\ nUpdate < MaxUpdate
            => ENABLED update_render(7, TRUE))

C8_Witness ==
    /\ icon_state = "Running"
    /\ nSelect = 0
    /\ hostpc = "update_assign"

\* C9: create_image raises no error, whatever the count and whichever font
\* load fails.
C9_NeverRaises == r_pc # "raised"

\* C10: the font-shrink loop terminates; when it is left, the text fits the
\* canvas or the font held is the smallest one that could be loaded (the load
\* one size below it failed); font_size starts at int(0.8 * height) and
\* changes only by decreasing by 1.
C10_ShrinkLoopTerminates ==
    /\ <>(r_pc \in {"returned", "raised"})
    /\ [](r_pc \in {"draw", "returned"} \/ (r_pc = "raised" /\ font # NoFont)
            => \/ getbbox_right(r_len, font) <= r_width
               \/ font_size = font - 1)
    /\ [][font_size' # font_size =>
            \/ font_size' = font_size - 1
            \/ /\ r_pc = "begin"
               /\ 10 * font_size' <= 8 * r_height
               /\ 8 * r_height < 10 * (font_size' + 1)]_vars

C10_Witness ==
    /\ r_pc = "returned"
    /\ r_width = 64 /\ r_len = 117
    /\ font = 1 /\ font_size = 0

\* C11: when icon.stop() raises in quit, its exception stays pending through
\* the finally clause and is the one that leaves the handler, after the
\* callback (if one is registered) has been called once.
C11_StopErrorPropagates ==
    hkind = "Quit" /\ hbody = "raised" =>
        /\ hpc \in {"check", "call", "done"}
        /\ hexc = "StopError"
        /\ hpc \in {"check", "call"} => hcalls = <<>>
        /\ hpc = "done" /\ hreg # None => Len(hcalls) = 1

C11_Witness ==
    /\ Completed("Quit") /\ hbody = "raised"
    /\ icon_state = "Running"
    /\ hexc = "StopError"
    /\ Len(hcalls) = 1 /\ hcalls[1].args = <<>>

\* C12: only the icon.stop() step of quit moves the icon from Running to
\* Stopped; start, update, Open, Hide and Show never do.
C12_OnlyQuitStops ==
    [][icon_state = "Running" /\ icon_state' = "Stopped"
         => hkind = "Quit" /\ hpc = "stop" /\ hpc' = "check"]_vars

C12_Witness ==
    /\ Completed("Quit") /\ hbody = "stopped"
    /\ icon_state = "Stopped"
    /\ nSelect = 2 /\ nUpdate >= 1 /\ nStart >= 2

\* C13: an update call made while the icon is Stopped leaves the displayed
\* badge and the rest of the controller state as they were.
C13_UpdateAfterStoppedNoEffect ==
    [][hostpc = "update_assign" /\ hostAt = "Stopped" /\ hostpc' = "idle"
         => UNCHANGED ctlVars]_vars

\* C14: host calls interleaved with a handler never change which callback the
\* handler calls nor how often: every call goes to the callback that was
\* registered when the handler was entered.
C14_HostCannotChangeCallee ==
    \A i \in 1..Len(hcalls) : hcalls[i].cb = hreg

NewStart == nStart' = nStart + 1

\* C15: a start call that repeats the argument of the start call before it
\* leaves the callback slot as that call left it, and a handler still calls
\* the callback once per selection.
C15_StartIdempotent ==
    /\ [][NewStart /\ lastStart' = lastStart => callback' = callback]_vars
    /\ [](Len(hcalls) <= 1)
    /\ [](hpc = "done" /\ hreg # None => Len(hcalls) = 1)

C15_Witness ==
    /\ prevStart = "cbA" /\ lastStart = "cbA"
    /\ callback = "cbA"
    /\ Completed("Open")
    /\ hcalls = <<[cb |-> "cbA", args |-> <<1>>]>>

\* C16: the callback slot is None until a start call supplies a callback and
\* never becomes None again; a start call without a callback leaves it
\* unchanged; a handler that passed its check never calls None.
C16_SlotNeverUnset ==
    /\ [](lastSupplied = None => callback = None)
    /\ [](hpc = "call" => callback # None)
    /\ [](\A i \in 1..Len(hcalls) : hcalls[i].cb # None)
    /\ [][callback # None => callback' # None]_vars
    /\ [][NewStart /\ lastStart' = None => callback' = callback]_vars

C16_Witness ==
    /\ hpc = "call"
    /\ hostpc = "start_run" /\ lastStart = None
    /\ nStart >= 2
    /\ callback # None

\* C17: start(cb) has recorded cb when it launches the loop, so a selection
\* dispatched once a start call has supplied a callback observes that
\* callback, never the unset slot, and ends with one call to it.
C17_RecordedBeforeLaunch ==
    /\ [](hostpc = "start_run" /\ lastStart # None => callback = lastStart)
    /\ [][hpc = "idle" /\ hpc' # "idle" /\ lastSupplied # None
            => hreg' = lastSupplied]_vars
    /\ [](hpc = "done" /\ lastSupplied # None /\ hreg = lastSupplied
            => Len(hcalls) = 1)

C17_Witness ==
    /\ nStart = 1 /\ nSelect = 1
    /\ Completed("Hide")
    /\ hreg = "cbB" /\ lastStart = "cbB"
    /\ hcalls = <<[cb |-> "cbB", args |-> <<2>>]>>

\* C18: while no callback is registered, each handler completes without
\* calling anything and without an error other than that of its own try
\* body; quit still attempts icon.stop(), and a stop that returns leaves the
\* icon Stopped.
C18_NoCallbackNoCall ==
    /\ [](hpc = "done" /\ callback = None =>
            /\ hcalls = <<>>
            /\ hexc = (IF hbody # "raised" THEN "none"
                       ELSE IF hkind = "Open" THEN "OpenError" ELSE "StopError")
            /\ hkind = "Quit" => hbody \in {"stopped", "raised"})
    /\ [][hpc = "stop" /\ hbody' = "stopped" => icon_state' = "Stopped"]_vars

C18_Witness ==
    /\ hostpc = "in_run" /\ nStart = 0
    /\ callback = None
    /\ Completed("Quit") /\ hbody = "stopped"
    /\ icon_state = "Stopped"
    /\ hcalls = <<>> /\ hexc = "none"

====
